---------------------------- MODULE Spec2Model ----------------------------
(***************************************************************************)
(* rateguard: the rate_limit(rpm) decorator of src/src/rateguard/main.py.  *)
(*                                                                         *)
(* One throttle (one call of rate_limit) shared by a set of caller         *)
(* threads.  Time is the value of time.time() in seconds; it advances by   *)
(* Tick between any two steps of any thread (preemption, the duration of   *)
(* the wrapped operation, oversleeping).  Each line of wrapper that reads  *)
(* or writes shared state, or reads the clock, is one step.  In Spec the   *)
(* clock is not set back while the program runs, and time.sleep(d) lasts   *)
(* at least d.                                                             *)
(***************************************************************************)
EXTENDS Integers, Sequences, FiniteSets

----------------------------------------------------------------------------
(* Bounds of the model *)

\* number of caller threads sharing the throttle
NumThreads == 2

\* total number of guarded calls made on the throttle
MaxCalls == 3

\* total number of guarded calls in the behaviours checked for liveness
LiveCalls == 2

\* the clock advances freely up to MaxTime; past it only while a caller sleeps
MaxTime == 100

\* seconds by which one Tick advances the clock
Quantum == 20

----------------------------------------------------------------------------
(* Program constants and inputs *)

\* main.py:25, the 60.0 of 60.0 / rpm: the seconds of a minute
Minute == 60

\* main.py:28, last_call_time: float = 0.0 ("no call yet")
Sentinel == 0

Threads == 1..NumThreads

\* the rpm values tried; the positive ones divide Minute, so that 60.0 / rpm
\* is a whole number of seconds
Rates == {-1, 0, 1, 3}

\* argument lists of the wrapped operation (tests/test_rate_limit.py:38, add(3, 4))
ArgLists == {<<3, 4>>}

\* failures the wrapped operation can raise
Errors == {"ValueError"}

\* time.time() when the program starts: at least a minute after the epoch
\* (every later time is reached by Tick)
StartTime == Minute

NoArgs == <<>>
NoOutcome == [kind |-> "none", val |-> 0]
NoCall == [func |-> NoOutcome, call |-> NoOutcome, invoked |-> 0]

\* the second throttle before its construction
NoThrottle == [made |-> FALSE, interval |-> 0, lock |-> FALSE, last_call_time |-> Sentinel,
               pc |-> "idle", wake |-> 0, releases |-> 0]

VARIABLES
    throttle,        \* "none" | "ok" | "error": rate_limit(rpm) not yet called, returned, raised
    rpm,             \* the argument of rate_limit
    interval,        \* main.py:25
    lock,            \* main.py:27: 0 when free, else the thread that holds it
    last_call_time,  \* main.py:28
    clock,           \* the value time.time() returns now
    pc,              \* per thread: its position in wrapper
    args,            \* per thread: the arguments of its current guarded call
    elapsed,         \* per thread: main.py:35-36
    asked,           \* per thread: the argument of its time.sleep, main.py:41
    wake,            \* per thread: the time at which its time.sleep may return
    passed,          \* per thread: the arguments func was invoked with
    invoked,         \* per thread: how often its current call has invoked func
    ticket,          \* per thread: the rank of its acquisition of the lock
    myRelease,       \* per thread: index in releases of its current call's release
    calls,           \* number of guarded calls started
    acquisitions,    \* number of acquisitions of the lock
    releases,        \* history: one record per update of last_call_time
    recent,          \* history: the invocations of func of the last minute
    done,            \* history: the guarded call that ended last, as func and its caller saw it
    other            \* a second throttle, made by another call of rate_limit, and its caller

vars == <<throttle, rpm, interval, lock, last_call_time, clock, pc, args,
          elapsed, asked, wake, passed, invoked, ticket, myRelease, calls,
          acquisitions, releases, recent, done, other>>

locals == <<args, elapsed, asked, wake, passed, invoked, ticket, myRelease>>
hist == <<releases, recent, done>>
config == <<throttle, rpm, interval>>

----------------------------------------------------------------------------
(* Pure parts of the code *)

\* a slip: rpm / 60.0
IntervalInverted(r) == r \div Minute

\* main.py:25  interval: float = 60.0 / rpm   (rpm # 0)
Interval(r) == IF r < 0 THEN -(Minute \div (-r)) ELSE Minute \div r

\* main.py:36  elapsed: float = now - last_call_time
Elapsed(n, last) == n - last

\* a slip: the comparison reversed
MustSleepReversed(e, i) == e > i

\* main.py:40  if elapsed < interval:
MustSleep(e, i) == e < i

\* a slip: the sleep is the whole interval
SleepForInterval(e, i) == i

\* a slip: the sleep is the time already elapsed
SleepForElapsed(e, i) == e

\* main.py:41  time.sleep(interval - elapsed)
SleepFor(e, i) == i - e

\* a slip: the next slot is scheduled from the previous one, so idle time
\* accumulates as credit
NewLastCallTimeScheduled(c, last, i) == last + i

\* main.py:44  last_call_time = time.time(): of the clock after the wait (c),
\* the old last_call_time (last) and the interval (i), the new value is the clock
NewLastCallTime(c, last, i) == c

\* a slip: last_call_time initialised to the time of construction
InitialLastCallTimeNow(c) == c

\* main.py:28  last_call_time: float = 0.0, whatever the time of construction (c)
InitialLastCallTime(c) == Sentinel

\* main.py:47  func(*args, **kwargs): the arguments are forwarded as given
Forward(a) == a

\* tests/test_rate_limit.py:35-36  the wrapped operation add(a, b)
Func(a) == a[1] + a[2]

\* a slip: func is called and its outcome dropped (wrapper returns None)
DeliverNone(o) == [kind |-> "return", val |-> 0]

\* main.py:47  return func(*args, **kwargs): the outcome of func is the
\* outcome of the guarded call
Deliver(o) == o

----------------------------------------------------------------------------
Init ==
    /\ throttle = "none"
    /\ rpm = 0
    /\ interval = 0
    /\ lock = 0
    /\ last_call_time = Sentinel
    /\ clock = StartTime
    /\ pc = [t \in Threads |-> "idle"]
    /\ args = [t \in Threads |-> NoArgs]
    /\ elapsed = [t \in Threads |-> 0]
    /\ asked = [t \in Threads |-> 0]
    /\ wake = [t \in Threads |-> 0]
    /\ passed = [t \in Threads |-> NoArgs]
    /\ invoked = [t \in Threads |-> 0]
    /\ ticket = [t \in Threads |-> 0]
    /\ myRelease = [t \in Threads |-> 0]
    /\ calls = 0
    /\ acquisitions = 0
    /\ releases = <<>>
    /\ recent = <<>>
    /\ done = NoCall
    /\ other = NoThrottle

\* main.py:10-51  rate_limit(rpm): 60.0 / 0 raises ZeroDivisionError, every
\* other rpm yields a decorator
rate_limit(r) ==
    /\ throttle = "none"
    /\ rpm' = r
    /\ IF r = 0
         THEN /\ throttle' = "error"
              /\ UNCHANGED <<interval, last_call_time>>
         ELSE /\ throttle' = "ok"
              /\ interval' = Interval(r)
              /\ last_call_time' = InitialLastCallTime(clock)
    /\ UNCHANGED <<lock, clock, pc, locals, calls, acquisitions, hist, other>>

\* the invocations of s that began less than a minute before time c
Within(s, c) == SelectSeq(s, LAMBDA v : v > c - Minute)

\* time passes
Tick ==
    /\ \/ clock < MaxTime
       \/ \E t \in Threads : pc[t] = "sleep" /\ clock < wake[t]
       \/ other.pc = "sleep" /\ clock < other.wake
    /\ clock' = clock + Quantum
    /\ recent' = Within(recent, clock + Quantum)
    /\ UNCHANGED <<config, lock, last_call_time, pc, locals, calls,
                   acquisitions, releases, done, other>>

\* main.py:32  a caller enters wrapper(*args, **kwargs)
Call(t, a) ==
    /\ throttle = "ok"
    /\ pc[t] = "idle"
    /\ calls < MaxCalls
    /\ calls' = calls + 1
    /\ pc' = [pc EXCEPT ![t] = "lock"]
    /\ args' = [args EXCEPT ![t] = a]
    /\ UNCHANGED <<config, lock, last_call_time, clock, elapsed, asked, wake,
                   passed, invoked, ticket, myRelease, acquisitions, hist,
                   other>>

\* a slip: no lock is taken (the with statement left out)
AcquireUnguarded(t) ==
    /\ pc[t] = "lock"
    /\ lock' = t
    /\ acquisitions' = acquisitions + 1
    /\ ticket' = [ticket EXCEPT ![t] = acquisitions + 1]
    /\ pc' = [pc EXCEPT ![t] = "now"]
    /\ UNCHANGED <<config, last_call_time, clock, args, elapsed, asked, wake,
                   passed, invoked, myRelease, calls, hist, other>>

\* a slip: func is called inside the with block, so nobody enters while a
\* wrapped operation runs
AcquireWhenQuiet(t) ==
    /\ pc[t] = "lock"
    /\ lock = 0
    /\ \A u \in Threads : pc[u] # "running"
    /\ lock' = t
    /\ acquisitions' = acquisitions + 1
    /\ ticket' = [ticket EXCEPT ![t] = acquisitions + 1]
    /\ pc' = [pc EXCEPT ![t] = "now"]
    /\ UNCHANGED <<config, last_call_time, clock, args, elapsed, asked, wake,
                   passed, invoked, myRelease, calls, hist, other>>

\* main.py:34  with lock:  (acquire)
Acquire(t) ==
    /\ pc[t] = "lock"
    /\ lock = 0
    /\ lock' = t
    /\ acquisitions' = acquisitions + 1
    /\ ticket' = [ticket EXCEPT ![t] = acquisitions + 1]
    /\ pc' = [pc EXCEPT ![t] = "now"]
    /\ UNCHANGED <<config, last_call_time, clock, args, elapsed, asked, wake,
                   passed, invoked, myRelease, calls, hist, other>>

\* main.py:35-36  now = time.time(); elapsed = now - last_call_time
ReadNow(t) ==
    /\ pc[t] = "now"
    /\ elapsed' = [elapsed EXCEPT ![t] = Elapsed(clock, last_call_time)]
    /\ pc' = [pc EXCEPT ![t] = "check"]
    /\ UNCHANGED <<config, lock, last_call_time, clock, args, asked, wake,
                   passed, invoked, ticket, myRelease, calls, acquisitions,
                   hist, other>>

\* a slip: the sleep is taken outside the lock
CheckSleepUnlocked(t) ==
    /\ pc[t] = "check"
    /\ IF MustSleep(elapsed[t], interval)
         THEN /\ pc' = [pc EXCEPT ![t] = "sleep"]
              /\ asked' = [asked EXCEPT ![t] = SleepFor(elapsed[t], interval)]
              /\ wake' = [wake EXCEPT ![t] = clock + SleepFor(elapsed[t], interval)]
              /\ lock' = 0
         ELSE /\ pc' = [pc EXCEPT ![t] = "update"]
              /\ UNCHANGED <<asked, wake, lock>>
    /\ UNCHANGED <<config, last_call_time, clock, args, elapsed, passed,
                   invoked, ticket, myRelease, calls, acquisitions, hist,
                   other>>

\* main.py:40-41  if elapsed < interval: time.sleep(interval - elapsed)  (the
\* sleep begins at the current time)
Check(t) ==
    /\ pc[t] = "check"
    /\ IF MustSleep(elapsed[t], interval)
         THEN /\ pc' = [pc EXCEPT ![t] = "sleep"]
              /\ asked' = [asked EXCEPT ![t] = SleepFor(elapsed[t], interval)]
              /\ wake' = [wake EXCEPT ![t] = clock + SleepFor(elapsed[t], interval)]
         ELSE /\ pc' = [pc EXCEPT ![t] = "update"]
              /\ UNCHANGED <<asked, wake>>
    /\ UNCHANGED <<config, lock, last_call_time, clock, args, elapsed, passed,
                   invoked, ticket, myRelease, calls, acquisitions, hist,
                   other>>

\* a slip: the sleep is a poll for the exact wake-up time
WakeExact(t) ==
    /\ pc[t] = "sleep"
    /\ clock = wake[t]
    /\ pc' = [pc EXCEPT ![t] = "update"]
    /\ UNCHANGED <<config, lock, last_call_time, clock, locals, calls,
                   acquisitions, hist, other>>

\* main.py:41  time.sleep returns, no earlier than the time asked for
Wake(t) ==
    /\ pc[t] = "sleep"
    /\ clock >= wake[t]
    /\ pc' = [pc EXCEPT ![t] = "update"]
    /\ UNCHANGED <<config, lock, last_call_time, clock, locals, calls,
                   acquisitions, hist, other>>

\* main.py:44  last_call_time = time.time(): the release event
Update(t) ==
    /\ pc[t] = "update"
    /\ last_call_time' = NewLastCallTime(clock, last_call_time, interval)
    /\ releases' = Append(releases,
                          [time   |-> clock,
                           stamp  |-> NewLastCallTime(clock, last_call_time, interval),
                           ticket |-> ticket[t],
                           waited |-> wake[t] # 0,
                           afterFailure |-> releases # <<>> /\ releases[Len(releases)].failed,
                           failed |-> FALSE])
    /\ myRelease' = [myRelease EXCEPT ![t] = Len(releases) + 1]
    /\ pc' = [pc EXCEPT ![t] = "unlock"]
    /\ elapsed' = [elapsed EXCEPT ![t] = 0]   \* the locals are not read again
    /\ asked' = [asked EXCEPT ![t] = 0]
    /\ wake' = [wake EXCEPT ![t] = 0]
    /\ UNCHANGED <<config, lock, clock, args, passed, invoked, ticket, calls,
                   acquisitions, recent, done, other>>

\* a slip: the lock is acquired by hand and never released
UnlockForgotten(t) ==
    /\ pc[t] = "unlock"
    /\ pc' = [pc EXCEPT ![t] = "invoke"]
    /\ UNCHANGED <<config, lock, last_call_time, clock, locals, calls,
                   acquisitions, hist, other>>

\* a slip: the lock is released inside the if branch, only after a sleep
UnlockIfWaited(t) ==
    /\ pc[t] = "unlock"
    /\ lock' = IF releases[myRelease[t]].waited THEN 0 ELSE lock
    /\ pc' = [pc EXCEPT ![t] = "invoke"]
    /\ UNCHANGED <<config, last_call_time, clock, locals, calls, acquisitions,
                   hist, other>>

\* main.py:34-44  the end of the with block releases the lock
Unlock(t) ==
    /\ pc[t] = "unlock"
    /\ lock' = 0
    /\ pc' = [pc EXCEPT ![t] = "invoke"]
    /\ UNCHANGED <<config, last_call_time, clock, locals, calls, acquisitions,
                   hist, other>>

\* main.py:47  func(*args, **kwargs) begins
Invoke(t) ==
    /\ pc[t] = "invoke"
    /\ passed' = [passed EXCEPT ![t] = Forward(args[t])]
    /\ invoked' = [invoked EXCEPT ![t] = invoked[t] + 1]
    /\ recent' = Append(recent, clock)
    /\ pc' = [pc EXCEPT ![t] = "running"]
    /\ UNCHANGED <<config, lock, last_call_time, clock, args, elapsed, asked,
                   wake, ticket, myRelease, calls, acquisitions, releases,
                   done, other>>

\* the guarded call of t ends with outcome o of func: wrapper's frame is gone
Leave(t, o) ==
    /\ done' = [func |-> o, call |-> Deliver(o), invoked |-> invoked[t]]
    /\ pc' = [pc EXCEPT ![t] = "idle"]
    /\ args' = [args EXCEPT ![t] = NoArgs]
    /\ passed' = [passed EXCEPT ![t] = NoArgs]
    /\ invoked' = [invoked EXCEPT ![t] = 0]
    /\ ticket' = [ticket EXCEPT ![t] = 0]
    /\ myRelease' = [myRelease EXCEPT ![t] = 0]

\* main.py:47  func returns and wrapper returns its value
FuncReturn(t) ==
    /\ pc[t] = "running"
    /\ Leave(t, [kind |-> "return", val |-> Func(passed[t])])
    /\ UNCHANGED <<config, lock, last_call_time, clock, elapsed, asked, wake,
                   calls, acquisitions, releases, recent, other>>

\* a slip: a failed call gives its slot back (last_call_time restored to the
\* value before its release)
FuncRaiseRefund(t, e) ==
    /\ pc[t] = "running"
    /\ Leave(t, [kind |-> "raise", val |-> e])
    /\ releases' = [releases EXCEPT ![myRelease[t]].failed = TRUE]
    /\ last_call_time' = IF myRelease[t] > 1 THEN releases[myRelease[t] - 1].stamp
                                              ELSE Sentinel
    /\ UNCHANGED <<config, lock, clock, elapsed, asked, wake, calls,
                   acquisitions, recent, other>>

\* a slip: a failed operation is tried once more
FuncRaiseRetry(t, e) ==
    /\ pc[t] = "running"
    /\ IF invoked[t] < 2
         THEN /\ pc' = [pc EXCEPT ![t] = "invoke"]
              /\ UNCHANGED <<args, passed, invoked, ticket, myRelease, releases,
                             done>>
         ELSE /\ Leave(t, [kind |-> "raise", val |-> e])
              /\ releases' = [releases EXCEPT ![myRelease[t]].failed = TRUE]
    /\ UNCHANGED <<config, lock, last_call_time, clock, elapsed, asked, wake,
                   calls, acquisitions, recent, other>>

\* main.py:47  func raises and the exception leaves wrapper; nothing else of
\* wrapper runs
FuncRaise(t, e) ==
    /\ pc[t] = "running"
    /\ Leave(t, [kind |-> "raise", val |-> e])
    /\ releases' = [releases EXCEPT ![myRelease[t]].failed = TRUE]
    /\ UNCHANGED <<config, lock, last_call_time, clock, elapsed, asked, wake,
                   calls, acquisitions, recent, other>>

Next ==
    \/ \E r \in Rates : rate_limit(r)
    \/ Tick
    \/ \E t \in Threads, a \in ArgLists : Call(t, a)
    \/ \E t \in Threads : Acquire(t)
    \/ \E t \in Threads : ReadNow(t)
    \/ \E t \in Threads : Check(t)
    \/ \E t \in Threads : Wake(t)
    \/ \E t \in Threads : Update(t)
    \/ \E t \in Threads : Unlock(t)
    \/ \E t \in Threads : Invoke(t)
    \/ \E t \in Threads : FuncReturn(t)
    \/ \E t \in Threads, e \in Errors : FuncRaise(t, e)

Spec == Init /\ [][Next]_vars

\* sequential calls from one thread (tests/test_rate_limit.py:16-18): only
\* thread 1 ever calls
SeqNext == Next /\ \A t \in Threads \ {1} : pc'[t] = "idle"

SeqSpec == Init /\ [][SeqNext]_vars

\* the steps of wrapper that the scheduler runs once they can run; a caller need
\* not call and func need not end
Progress(t) ==
    Acquire(t) \/ ReadNow(t) \/ Check(t) \/ Wake(t) \/ Update(t) \/ Unlock(t) \/ Invoke(t)

\* the behaviours with at most LiveCalls guarded calls
FairNext == Next /\ calls' <= LiveCalls

\* time always passes, and a thread that can take a step of wrapper takes it
FairSpec ==
    /\ Init /\ [][FairNext]_vars
    /\ WF_vars(Tick)
    /\ \A t \in Threads : WF_vars(Progress(t))

----------------------------------------------------------------------------
(* The claims *)

\* spec.md section 3: MinInterval = 60 / Rate, for a positive Rate
MinInterval == Minute \div rpm

Running(t) == pc[t] = "running"
AllIdle == \A t \in Threads : pc[t] = "idle"
NumReleases == Len(releases)

C2_AtMostRpmPerMinute == rpm > 0 => Len(recent) <= rpm

\* C3 (as claimed): with sequential calls from one thread, the instants at
\* which the body of the wrapped function runs are at least MinInterval apart
\* for consecutive calls.
C3_BodySpacing ==
    rpm > 0 => \A i \in 2..Len(recent) : recent[i] - recent[i - 1] >= MinInterval

C5_ConstructionValidation ==
    throttle # "none" /\ rpm <= 0 =>
        /\ throttle = "error"
        /\ calls = 0
        /\ releases = <<>>

\* C6: pass-through.  The wrapped operation is invoked with exactly the
\* arguments the guarded call was given, and the guarded call returns exactly
\* the value the wrapped operation returned, whether or not the call waited.
C6_PassThrough ==
    /\ \A t \in Threads : Running(t) => passed[t] = args[t]
    /\ done.func.kind = "return" =>
          /\ done.call = done.func
          /\ done.call.val \in {Func(a) : a \in ArgLists}

\* every call has ended, one of them had to wait and returned, and the call
\* that ended last returned
C6_Witness ==
    /\ AllIdle
    /\ calls = MaxCalls
    /\ done.call.kind = "return"
    /\ \E i \in 1..NumReleases : releases[i].waited /\ ~releases[i].failed

\* the wrapped operation of some call has raised
SomeFailed == \E i \in 1..NumReleases : releases[i].failed

\* C7: failure transparency.  When the wrapped operation fails its caller
\* observes that same failure; a caller that is in func or has left the
\* guarded call does not hold the lock; and once a call has failed, every
\* guarded call waiting for the lock is eventually released and delegated.
C7_FailureTransparency ==
    /\ [](done.func.kind = "raise" => done.call = done.func)
    /\ [](\A t \in Threads : pc[t] \in {"idle", "lock", "invoke", "running"} => lock # t)
    /\ \A t \in Threads : (SomeFailed /\ pc[t] = "lock") ~> Running(t)

\* after a failed call, a later call that had to queue is released and runs func
C7_Witness ==
    /\ done.func.kind = "raise"
    /\ done.call.kind = "raise"
    /\ lock = 0
    /\ NumReleases >= 2
    /\ releases[NumReleases].afterFailure
    /\ \E t \in Threads : Running(t) /\ myRelease[t] = NumReleases

C9_FirstCallNeverWaits ==
    rpm > 0 =>
        /\ \A t \in Threads : pc[t] = "sleep" => NumReleases >= 1
        /\ NumReleases >= 1 => ~releases[1].waited

\* the first call of the slowest rate, made at the earliest time
C9_Witness ==
    /\ rpm = 1
    /\ NumReleases >= 1
    /\ releases[1].time = StartTime

InCritical(t) == pc[t] \in {"now", "check", "sleep", "update", "unlock"}

\* the caller has been released: its update of last_call_time is done
Released(t) == pc[t] \in {"unlock", "invoke", "running"}

\* C11: a long-running wrapped operation does not block admission.  While
\* another caller's delegated call is executing, and even if it never ends, a
\* caller waiting for the lock is eventually released; no caller in func holds
\* the lock.
C11_NoBlockingByRunningCall ==
    /\ [](\A t \in Threads : Running(t) => lock # t)
    /\ \A t \in Threads :
          (pc[t] = "lock" /\ \E u \in Threads \ {t} : Running(u)) ~> Released(t)

\* a caller has been released while the call released before it is still in func
C11_Witness ==
    \E t, u \in Threads :
        /\ t # u
        /\ Running(u)
        /\ Released(t)
        /\ myRelease[t] > myRelease[u]
        /\ releases[myRelease[t]].waited

\* C12: mutual exclusion.  At most one caller is inside the
\* read-compare-sleep-update sequence, it holds the lock (also while it
\* sleeps), and nobody else has read or written last_call_time since: the
\* value it read is still there until its own update.
C12_MutualExclusion ==
    /\ \A t, u \in Threads : InCritical(t) /\ InCritical(u) => t = u
    /\ \A t \in Threads : InCritical(t) => lock = t
    /\ \A t \in Threads :
          pc[t] \in {"check", "sleep", "update"} =>
              /\ elapsed[t] <= Elapsed(clock, last_call_time)
              /\ \A u \in Threads \ {t} : pc[u] \notin {"now", "check", "sleep", "update"}

\* a caller sleeps inside the critical section while another one waits for the lock
C12_Witness ==
    \E t, u \in Threads :
        /\ t # u
        /\ pc[t] = "sleep"
        /\ lock = t
        /\ pc[u] = "lock"

\* C13: locking discipline.  A caller that executes the wrapped operation, or
\* is outside the guarded call, or is about to invoke, does not hold the lock;
\* the lock is held only by a caller inside the read-compare-sleep-update
\* sequence; when every call has ended the lock is free.
C13_LockingDiscipline ==
    /\ \A t \in Threads : pc[t] \in {"idle", "lock", "invoke", "running"} => lock # t
    /\ lock # 0 => InCritical(lock)
    /\ AllIdle => lock = 0

\* one caller runs func after a failed call while another holds the lock
C13_Witness ==
    /\ done.call.kind = "raise"
    /\ \E t, u \in Threads : t # u /\ Running(t) /\ lock = u /\ pc[u] = "sleep"

\* time.time() is the system's wall clock (main.py:35, 44): setting the
\* system time back makes it return less than it returned before
SetBack ==
    /\ clock > StartTime
    /\ clock' = clock - Quantum
    /\ UNCHANGED <<config, lock, last_call_time, pc, locals, calls,
                   acquisitions, hist, other>>

\* the behaviours with at most LiveCalls guarded calls in which the system
\* time may be set back
WallNext == (Next \/ SetBack) /\ calls' <= LiveCalls

WallSpec == Init /\ [][WallNext]_vars

\* C14: monotonic clock.  On a throttle with rpm > 0 no call computes a
\* negative elapsed, and the values written to last_call_time never decrease
\* from one release to the next.
C14_MonotonicClock ==
    rpm > 0 =>
        /\ \A t \in Threads : pc[t] \in {"check", "sleep"} => elapsed[t] >= 0
        /\ \A i \in 2..NumReleases : releases[i].stamp >= releases[i - 1].stamp

C16_InvokedOnceAfterRelease ==
    /\ \A t \in Threads :
          /\ pc[t] \in {"lock", "now", "check", "sleep", "update"} =>
                invoked[t] = 0 /\ myRelease[t] = 0
          /\ pc[t] \in {"unlock", "invoke"} => invoked[t] = 0 /\ myRelease[t] > 0
          /\ pc[t] = "running" =>
                /\ invoked[t] = 1
                /\ myRelease[t] \in 1..NumReleases
                /\ lock # t
                /\ releases[myRelease[t]].time <= clock
          /\ pc[t] = "idle" => invoked[t] = 0
    /\ done # NoCall => done.invoked = 1

\* a call that waited for its slot has ended by a raise of func while another
\* call is in progress
C16_Witness ==
    /\ done.func.kind = "raise"
    /\ done.invoked = 1
    /\ NumReleases >= 2
    /\ releases[2].waited /\ releases[2].failed
    /\ \E t \in Threads : pc[t] \in {"sleep", "running"}

C18_OverlapKeepsSpacing ==
    rpm > 0 =>
        \A t, u \in Threads :
            t # u /\ Running(t) /\ Running(u) /\ myRelease[t] < myRelease[u] =>
                /\ releases[myRelease[u]].time - releases[myRelease[t]].time >= MinInterval
                /\ releases[myRelease[u]].stamp - releases[myRelease[t]].stamp >= MinInterval
                /\ lock \notin {t, u}

\* two callers run func at the same time, the second released after a sleep
C18_Witness ==
    /\ rpm > 0
    /\ \E t, u \in Threads : /\ t # u
                             /\ Running(t) /\ Running(u)
                             /\ myRelease[t] < myRelease[u]
                             /\ releases[myRelease[u]].waited
                             /\ releases[myRelease[u]].time - releases[myRelease[t]].time >= MinInterval

\* func ends, by returning or by raising
Finish(t) == FuncReturn(t) \/ \E e \in Errors : FuncRaise(t, e)

\* FairSpec with wrapped operations that terminate
TermSpec == FairSpec /\ \A t \in Threads : WF_vars(Finish(t))

\* C19: no deadlock, termination.  With finitely many calls and terminating
\* wrapped operations, under weak fairness every call that has begun is
\* eventually released and eventually returns to its caller, and from some
\* point on all callers are idle and the lock is free.
C19_Termination ==
    /\ \A t \in Threads : (pc[t] = "lock") ~> Released(t)
    /\ \A t \in Threads : (pc[t] # "idle") ~> (pc[t] = "idle")
    /\ <>[](AllIdle /\ lock = 0)

\* all the calls allowed have been made and have ended, one of them after a
\* sleep and one by a raise; everybody is idle and the lock is free
C19_Witness ==
    /\ calls = LiveCalls
    /\ NumReleases = LiveCalls
    /\ AllIdle /\ lock = 0
    /\ \E i \in 1..NumReleases : releases[i].waited
    /\ \E i \in 1..NumReleases : releases[i].failed

----------------------------------------------------------------------------
(* A second throttle: another call of rate_limit makes its own interval, lock
   and last_call_time (main.py:25-28 are locals of that call), and a caller of
   its wrapper runs main.py:32-47 on them. *)

OtherRates == {r \in Rates : r > 0}

\* a slip: interval and last_call_time are module globals, so making a second
\* throttle overwrites those of the first
OtherMakeGlobal(r) ==
    /\ ~other.made
    /\ other' = [NoThrottle EXCEPT !.made = TRUE,
                                   !.interval = Interval(r),
                                   !.last_call_time = InitialLastCallTime(clock)]
    /\ interval' = Interval(r)
    /\ last_call_time' = InitialLastCallTime(clock)
    /\ UNCHANGED <<throttle, rpm, lock, clock, pc, locals, calls, acquisitions,
                   hist>>

\* main.py:10-51  a second rate_limit(r)
OtherMake(r) ==
    /\ ~other.made
    /\ other' = [NoThrottle EXCEPT !.made = TRUE,
                                   !.interval = Interval(r),
                                   !.last_call_time = InitialLastCallTime(clock)]
    /\ UNCHANGED <<config, lock, last_call_time, clock, pc, locals, calls,
                   acquisitions, hist>>

\* main.py:34-41  the caller of the second throttle takes its lock, reads the
\* clock and begins its sleep, if any
OtherEnter ==
    /\ other.made
    /\ other.pc = "idle"
    /\ ~other.lock
    /\ other.releases < LiveCalls
    /\ LET e == Elapsed(clock, other.last_call_time)
       IN  other' = IF MustSleep(e, other.interval)
                      THEN [other EXCEPT !.lock = TRUE, !.pc = "sleep",
                                         !.wake = clock + SleepFor(e, other.interval)]
                      ELSE [other EXCEPT !.lock = TRUE, !.pc = "update"]
    /\ UNCHANGED <<config, lock, last_call_time, clock, pc, locals, calls,
                   acquisitions, hist>>

\* main.py:41  its time.sleep returns
OtherWake ==
    /\ other.pc = "sleep"
    /\ clock >= other.wake
    /\ other' = [other EXCEPT !.pc = "update"]
    /\ UNCHANGED <<config, lock, last_call_time, clock, pc, locals, calls,
                   acquisitions, hist>>

\* main.py:44-47  it updates its last_call_time, releases its lock and calls
\* func
OtherRelease ==
    /\ other.pc = "update"
    /\ other' = [other EXCEPT
                    !.last_call_time = NewLastCallTime(clock, other.last_call_time,
                                                       other.interval),
                    !.lock = FALSE,
                    !.pc = "idle",
                    !.wake = 0,
                    !.releases = other.releases + 1]
    /\ UNCHANGED <<config, lock, last_call_time, clock, pc, locals, calls,
                   acquisitions, hist>>

OtherNext ==
    \/ \E r \in OtherRates : OtherMake(r)
    \/ OtherEnter
    \/ OtherWake
    \/ OtherRelease

\* two throttles, each with one caller; at most LiveCalls calls on each
TwoNext ==
    /\ Next \/ OtherNext
    /\ calls' <= LiveCalls
    /\ \A t \in Threads \ {1} : pc'[t] = "idle"

TwoSpec == Init /\ [][TwoNext]_vars

\* a step of a guarded call on the first throttle
CallStep == pc' # pc

\* C20: instance isolation and frame.  A step of a guarded call on a throttle
\* changes nothing of the throttle but its lock and its last_call_time: rpm
\* and interval stay what construction made them, interval = 60 / rpm.  It
\* changes nothing of a second throttle, and a step on the second throttle
\* changes nothing of the first.  Neither delays the callers of the other: the
\* first call on either throttle does not sleep, whatever happened on the other,
\* and a sleep on the second throttle ends one interval of its own after its
\* own last release.
C20_IsolationAndFrame ==
    /\ [][CallStep => UNCHANGED <<config, other>>]_vars
    /\ [][throttle = "ok" => UNCHANGED <<config>>]_vars
    /\ [][other' # other =>
            UNCHANGED <<config, lock, last_call_time, pc, locals, calls,
                        acquisitions, hist>>]_vars
    /\ [][other.made => other'.made /\ other'.interval = other.interval]_vars
    /\ [](throttle = "ok" => interval = Interval(rpm))
    /\ [](rpm > 0 /\ NumReleases >= 1 => ~releases[1].waited)
    /\ [](other.pc = "sleep" =>
            /\ other.releases >= 1
            /\ other.wake = other.last_call_time + other.interval)

\* both throttles are in use at once: a caller of the first sleeps under its
\* lock while the second, made with another rate, has released a call and its
\* caller sleeps for the next
C20_Witness ==
    /\ rpm > 0
    /\ other.made /\ other.interval # interval
    /\ other.releases >= 1 /\ other.pc = "sleep"
    /\ pc[1] = "sleep" /\ lock = 1
    /\ other.last_call_time # last_call_time

=============================================================================
